---- MODULE Spec2Model ----
(***************************************************************************)
(* Mandelbrot_GPU (src/mandelbrot.cpp): the escape-time kernel, the colour *)
(* table, the asynchronous generation (generateMandelbrotAsync and its     *)
(* detached worker) and the SDL event/presentation loop of main.           *)
(*                                                                         *)
(* Numbers.  A binary floating-point value is a record [m, e] standing for *)
(* m * 2^e, kept canonical (m odd, or m = 0 and e = 0).  Every arithmetic  *)
(* operation computes the exact result and rounds it to nearest, ties to   *)
(* even, as IEEE-754 does.  The significand widths are scaled down from    *)
(* 24/53/64 bits (float/double/long double) to MantBits/DMantBits/         *)
(* LMantBits so that TLC's integers can carry the exact intermediate       *)
(* results.  The exponent range of float, scaled down to ExpRange, is      *)
(* kept where a result is stored in zoom (NarrowToFloat); the other        *)
(* operations are not range-limited.  The raster is scaled down from       *)
(* 800x600 to WIDTH x HEIGHT.                                              *)
(***************************************************************************)
EXTENDS Integers, Sequences, FiniteSets, TLC

\* ------------------------------------------------------------- bounds
WIDTH == 2
HEIGHT == 2
MantBits == 7
MaxEvents == 2
MaxWorkers == 2
ExpRange == 4
MaxKeys == 3
MaxZoomKeys == 100

\* -------------------------------------------------- program constants
MAX_ITER == 800
ByteRange == 256

DMantBits == 2 * MantBits + 3
LMantBits == DMantBits + 1

\* --------------------------------------------- floating-point numbers
Abs(n) == IF n < 0 THEN -n ELSE n

Sgn(n) == IF n < 0 THEN -1 ELSE IF n > 0 THEN 1 ELSE 0

Max(a, b) == IF a >= b THEN a ELSE b

Min(a, b) == IF a <= b THEN a ELSE b

RECURSIVE BitLenIn(_, _)
\* Number of significant bits of n, 0 <= n < 2^w (w a power of two), found
\* by halving w.
BitLenIn(n, w) ==
    IF w = 1 THEN n
    ELSE IF n >= 2 ^ (w \div 2)
         THEN (w \div 2) + BitLenIn(n \div (2 ^ (w \div 2)), w \div 2)
         ELSE BitLenIn(n, w \div 2)

\* Number of significant bits of n >= 0.
BitLen(n) == BitLenIn(n, 32)

RECURSIVE Strip(_, _, _)
\* m * 2^e (m # 0) with up to 2w - 1 trailing zero bits of m moved into e.
Strip(m, e, w) ==
    IF w = 0 THEN [m |-> m, e |-> e]
    ELSE IF m % (2 ^ w) = 0 THEN Strip(m \div (2 ^ w), e + w, w \div 2)
    ELSE Strip(m, e, w \div 2)

\* The canonical record of m * 2^e.
Canon(m, e) == IF m = 0 THEN [m |-> 0, e |-> 0] ELSE Strip(m, e, 16)

Zero == [m |-> 0, e |-> 0]

Neg(f) == [m |-> -f.m, e |-> f.e]

\* Position of the bit above the most significant bit of f: |f| < 2^Top(f).
Top(f) == f.e + BitLen(Abs(f.m))

\* m * 2^e rounded to prec significant bits, to nearest, ties to even.
RoundDyadic(prec, m, e) ==
    LET a == Abs(m)
        b == BitLen(a)
    IN  IF b <= prec THEN Canon(m, e)
        ELSE LET k    == b - prec
                 q    == a \div (2 ^ k)
                 r    == a % (2 ^ k)
                 half == 2 ^ (k - 1)
                 up   == r > half \/ (r = half /\ q % 2 = 1)
             IN  Canon(Sgn(m) * (IF up THEN q + 1 ELSE q), e + k)

RECURSIVE LongDiv(_, _, _)
\* k more quotient bits of the long division by d, from qr = <<quotient,
\* remainder>> (remainder < d); the k steps are taken in two halves.
LongDiv(qr, d, k) ==
    IF k = 0 THEN qr
    ELSE IF k = 1
    THEN IF 2 * qr[2] >= d THEN <<2 * qr[1] + 1, 2 * qr[2] - d>>
         ELSE <<2 * qr[1], 2 * qr[2]>>
    ELSE LET h == LongDiv(qr, d, k \div 2)
         IN  IF h[2] >= 0 THEN LongDiv(h, d, k - k \div 2) ELSE h

\* The least t >= 0 with a * 2^t >= d (a > 0, d > 0).
ShiftUp(a, d) ==
    LET t == Max(0, BitLen(d) - BitLen(a))
    IN  IF a * (2 ^ t) >= d THEN t ELSE t + 1

\* (n / d) * 2^e rounded to prec significant bits (d > 0): the quotient is
\* developed to prec + 2 bits and the remainder kept as a sticky bit.
RoundRatio(prec, n, d, e) ==
    IF n = 0 THEN Zero
    ELSE LET a  == Abs(n)
             t  == ShiftUp(a, d)
             a1 == a * (2 ^ t)
             q0 == a1 \div d
             k  == Max(0, prec + 2 - BitLen(q0))
             qr == LongDiv(<<q0, a1 % d>>, d, k)
             st == IF qr[2] = 0 THEN 0 ELSE 1
         IN  RoundDyadic(prec, Sgn(n) * (2 * qr[1] + st), e - t - k - 1)

\* A dyadic number that rounds to prec bits as the exact sum f + g does and
\* has its sign: the exact sum, or, when one operand lies wholly below the
\* other's rounding position, the larger one with a sticky bit.
AddExact(prec, f, g) ==
    IF f.m = 0 THEN g
    ELSE IF g.m = 0 THEN f
    ELSE LET hi  == IF Top(f) >= Top(g) THEN f ELSE g
             lo  == IF Top(f) >= Top(g) THEN g ELSE f
             pad == Max(0, prec + 2 - BitLen(Abs(hi.m)))
             H   == hi.m * (2 ^ pad)
             He  == hi.e - pad
         IN  IF Top(lo) <= He
             THEN [m |-> 2 * H + Sgn(lo.m), e |-> He - 1]
             ELSE LET e0 == Min(He, lo.e)
                  IN  [m |-> H * (2 ^ (He - e0)) + lo.m * (2 ^ (lo.e - e0)),
                       e |-> e0]

RoundTo(prec, f) == RoundDyadic(prec, f.m, f.e)

\* float operations (single precision)
FAdd(f, g) == RoundTo(MantBits, AddExact(MantBits, f, g))

FSub(f, g) == FAdd(f, Neg(g))

FMul(f, g) == RoundDyadic(MantBits, f.m * g.m, f.e + g.e)

FDiv(f, g) ==
    RoundRatio(MantBits, Sgn(g.m) * f.m, Abs(g.m), f.e - g.e)

\* int -> float
IntToFloat(n) == RoundDyadic(MantBits, n, 0)

\* a decimal literal n/d read as a float
FloatLit(n, d) == RoundRatio(MantBits, n, d, 0)

\* f > g
Greater(f, g) == AddExact(MantBits, f, Neg(g)).m > 0

Four == [m |-> 1, e |-> 2]

\* ------------------------------------------------------ colour table
RECURSIVE MulDigits(_, _, _)
\* The little-endian base-MAX_ITER digits ds times k, plus carry.
MulDigits(ds, k, carry) ==
    IF ds = <<>>
    THEN IF carry = 0 THEN <<>>
         ELSE <<carry % MAX_ITER>> \o MulDigits(<<>>, k, carry \div MAX_ITER)
    ELSE LET v == Head(ds) * k + carry
         IN  <<v % MAX_ITER>> \o MulDigits(Tail(ds), k, v \div MAX_ITER)

RECURSIVE Times(_, _, _)
\* ds * k^n
Times(ds, k, n) == IF n = 0 THEN ds ELSE Times(MulDigits(ds, k, 0), k, n - 1)

RECURSIVE DigitsValue(_)
DigitsValue(ds) ==
    IF ds = <<>> THEN 0 ELSE Head(ds) + MAX_ITER * DigitsValue(Tail(ds))

\* Integer part of (num/den) * (1-t)^p1 * t^p0 * 255 with t = iter/MAX_ITER:
\* num * 255 * (MAX_ITER-iter)^p1 * iter^p0 / (den * MAX_ITER^4), p1 + p0 = 4.
\* The code evaluates the product in long double; its rounding error (below
\* 2^-52) is smaller than the distance of any non-integer value of this
\* quotient to an integer (at least 1/(2*800^4)), and the two integer values,
\* at iter = 0 and iter = MAX_ITER, are exact products with 0, so the
\* truncated results agree.
Channel(num, den, p1, p0, iter) ==
    LET x  == Times(Times(MulDigits(<<num>>, 255, 0), MAX_ITER - iter, p1),
                    iter, p0)
        hi == IF Len(x) <= 4 THEN 0 ELSE DigitsValue(SubSeq(x, 5, Len(x)))
    IN  hi \div den

\* static_cast<uint8_t>
ToByte(v) == v % ByteRange

\* The entry initColorTable stores for iter.
\* A red channel 9 * t * t * t * t * 255, without the factor (1 - t).
ColorOfNoFade(iter) ==
    << ToByte(Channel(9, 1, 0, 4, iter)), ToByte(Channel(15, 1, 2, 2, iter)),
       ToByte(Channel(17, 2, 3, 1, iter)) >>

ColorOf(iter) ==
    << ToByte(Channel(9, 1, 1, 3, iter)),
       ToByte(Channel(15, 1, 2, 2, iter)),
       ToByte(Channel(17, 2, 3, 1, iter)) >>

initColorTable == [iter \in 0..MAX_ITER |-> ColorOf(iter)]

\* ----------------------------------------------------- OpenCL kernel
\* The device is taken to support double, so that the unsuffixed literals
\* 3.5, 2.0 and 4.0 are double as OpenCL C defines them.
\* float scale = aspect / size / zoom, the quotients taken in double
\* (3.5 and 2.0 are double literals) and the result stored as float.
Scale(aspectNum, aspectDen, size, kzoom) ==
    LET d1 == RoundRatio(DMantBits, aspectNum, aspectDen * size, 0)
        d2 == RoundRatio(DMantBits, Sgn(kzoom.m) * d1.m, Abs(kzoom.m),
                         d1.e - kzoom.e)
    IN  RoundTo(MantBits, d2)

\* The complex coordinate of work-item (x, y) for kernel arguments a.
PixelC(x, y, a) ==
    [cx |-> FAdd(FMul(IntToFloat(x - WIDTH \div 2),
                      Scale(7, 2, WIDTH, a.zoom)), a.offsetX),
     cy |-> FAdd(FMul(IntToFloat(y - HEIGHT \div 2),
                      Scale(2, 1, HEIGHT, a.zoom)), a.offsetY)]

\* An escape test that fires at 4.0 already.
EscapedAtFour(zx, zy) == ~Greater(Four, FAdd(FMul(zx, zx), FMul(zy, zy)))

\* lines 80-82: zx2 + zy2 > 4.0, the squares and their sum in float, the
\* comparison with the double 4.0 exact
Escaped(zx, zy) == Greater(FAdd(FMul(zx, zx), FMul(zy, zy)), Four)

\* tmp = zx2 - zy2 + cx
NextZx(zx, zy, c) == FAdd(FSub(FMul(zx, zx), FMul(zy, zy)), c.cx)

\* zy = 2.0 * zx * zy + cy, evaluated in double and stored as float
NextZy(zx, zy, c) ==
    RoundTo(MantBits,
            RoundTo(DMantBits,
                    AddExact(DMantBits,
                             Canon(2 * zx.m * zy.m, zx.e + zy.e), c.cy)))

\* The state of the while loop before any pass.
LoopStart == [zx |-> Zero, zy |-> Zero, iter |-> 0, run |-> TRUE]

\* One evaluation of the loop condition and, unless the loop ends there (the
\* condition fails or the escape test breaks out), one pass of its body.
LoopStep(st, c, max_iter) ==
    IF st.run /\ st.iter < max_iter /\ ~Escaped(st.zx, st.zy)
    THEN [zx   |-> NextZx(st.zx, st.zy, c),
          zy   |-> NextZy(st.zx, st.zy, c),
          iter |-> st.iter + 1,
          run  |-> TRUE]
    ELSE [st EXCEPT !.run = FALSE]

RECURSIVE LoopPasses(_, _, _, _)
\* The loop state after up to n evaluations of the loop condition, taken in
\* two halves (n >= 1).
LoopPasses(st, c, max_iter, n) ==
    IF n = 1 THEN LoopStep(st, c, max_iter)
    ELSE LET h == LoopPasses(st, c, max_iter, n \div 2)
         IN  IF h.run THEN LoopPasses(h, c, max_iter, n - n \div 2) ELSE h

\* The value of iter when the while loop has ended: the condition is
\* evaluated at most max_iter + 1 times.
EscapeLoop(c, max_iter) == LoopPasses(LoopStart, c, max_iter, max_iter + 1).iter

\* The byte the kernel stores in every component of output[y * width + x].
StoredByte(iter) == iter % ByteRange

\* ---------------------------------------------------------- viewport
Keys == {"w", "s", "a", "d", "e", "q"}

\* 0.1f
PanStep == FloatLit(1, 10)

\* 1.05L
ZoomFactor == RoundRatio(LMantBits, 105, 100, 0)

\* The double literal of line 18/19/20 converted to float.
InitFloat(n, d) == RoundTo(MantBits, RoundRatio(DMantBits, n, d, 0))

\* lines 18-20; the literals of lines 18 and 19 are cut to six digits,
\* which the conversion to MantBits bits does not see.
InitialView ==
    [offsetX |-> InitFloat(-705923, 1000000),
     offsetY |-> InitFloat(-267652, 1000000),
     zoom    |-> InitFloat(1, 2)]

\* The exponent range of float, scaled down from -126..127: the leading
\* bit of a normal value has an exponent in EMin..EMax, and the values
\* below 2^EMin are the multiples of 2^(EMin - MantBits + 1).
EMin == -ExpRange

EMax == ExpRange

\* +inf, held as a number above the float range whose product and quotient
\* with 1.05L lie above the range as well, as inf * 1.05L = inf / 1.05L = inf.
Infinity == [m |-> 1, e |-> EMax + 2]

\* f rounded to the nearest multiple of 2^g, ties to even.
RoundToGrid(f, g) ==
    IF f.e >= g THEN f
    ELSE LET a == Abs(f.m)
             k == g - f.e
             q == a \div (2 ^ k)
             r == a % (2 ^ k)
             half == 2 ^ (k - 1)
             up == r > half \/ (r = half /\ q % 2 = 1)
         IN  Canon(Sgn(f.m) * (IF up THEN q + 1 ELSE q), g)

\* A conversion to float that flushes results below the normal range to 0.
NarrowFlushingToZero(f) ==
    IF f.m = 0 \/ Top(f) - 1 < EMin THEN Zero
    ELSE IF Top(RoundTo(MantBits, f)) - 1 > EMax
         THEN [m |-> Sgn(f.m), e |-> Infinity.e]
         ELSE RoundTo(MantBits, f)

\* The conversion of a long double result to float when it is stored in
\* zoom: to nearest even, gradual underflow, overflow to infinity.
NarrowToFloat(f) ==
    IF f.m = 0 THEN Zero
    ELSE IF Top(f) - 1 < EMin THEN RoundToGrid(f, EMin - MantBits + 1)
    ELSE IF Top(RoundTo(MantBits, f)) - 1 > EMax
         THEN [m |-> Sgn(f.m), e |-> Infinity.e]
         ELSE RoundTo(MantBits, f)

\* The viewport after SDL_KEYDOWN of key k in viewport v (the switch of main).
KeyDown(v, k) ==
    CASE k = "w" -> [v EXCEPT !.offsetY = FSub(v.offsetY, FDiv(PanStep, v.zoom))]
      [] k = "s" -> [v EXCEPT !.offsetY = FAdd(v.offsetY, FDiv(PanStep, v.zoom))]
      [] k = "a" -> [v EXCEPT !.offsetX = FSub(v.offsetX, FDiv(PanStep, v.zoom))]
      [] k = "d" -> [v EXCEPT !.offsetX = FAdd(v.offsetX, FDiv(PanStep, v.zoom))]
      [] k = "e" -> [v EXCEPT !.zoom =
                        NarrowToFloat(
                            RoundDyadic(LMantBits, v.zoom.m * ZoomFactor.m,
                                        v.zoom.e + ZoomFactor.e))]
      [] k = "q" -> [v EXCEPT !.zoom =
                        NarrowToFloat(
                            RoundRatio(LMantBits, v.zoom.m, ZoomFactor.m,
                                       v.zoom.e - ZoomFactor.e))]
      [] OTHER   -> v

RECURSIVE Within(_, _)
\* The viewports that at most n key events lead to from those of S.
Within(S, n) ==
    IF n = 0 THEN S
    ELSE Within(S \cup {KeyDown(v, k) : v \in S, k \in Keys}, n - 1)

\* The argument triples the three setArg calls of one generation can read:
\* offsetX, then offsetY, then zoom, each from the viewport of its moment.
DispatchArgs ==
    UNION { UNION { UNION { { [offsetX |-> v1.offsetX, offsetY |-> v2.offsetY,
                               zoom |-> v3.zoom] :
                              v3 \in Within({v2}, MaxEvents - n[1] - n[2]) } :
                            v2 \in Within({v1}, n[2]) } :
                    v1 \in Within({InitialView}, n[1]) } :
            n \in {m \in (0..MaxEvents) \X (0..MaxEvents) :
                       m[1] + m[2] <= MaxEvents} }

Pixels == 0..(WIDTH * HEIGHT - 1)

\* The coordinate of the work-item whose output index is idx = y * width + x.
PixelOf(idx, a) == PixelC(idx % WIDTH, idx \div WIDTH, a)

\* The coordinates a dispatch can meet.
Coordinates == {PixelOf(idx, a) : idx \in Pixels, a \in DispatchArgs}

\* The loop counter the kernel reaches for each of them (the kernel's
\* result is a function of its arguments alone).
IterTable == [c \in Coordinates |-> EscapeLoop(c, MAX_ITER)]

\* The kernel: the loop counter of work-item idx, and the byte it stores.
mandelbrotIter(idx, a) == IterTable[PixelOf(idx, a)]

mandelbrot(idx, a) == StoredByte(mandelbrotIter(idx, a))

\* The output buffer after the kernel has run for every work-item of the
\* range, for each argument triple a dispatch can have.
OutputBuffer == [a \in DispatchArgs |-> [p \in Pixels |-> mandelbrot(p, a)]]

\* --------------------------------------------------------------- state
VARIABLES
    colorTable,              \* the palette (line 16)
    build,                   \* initColorTable's loop counter
    offsetX, offsetY, zoom,  \* the viewport globals (lines 18-20)
    needsRedraw,             \* line 21
    isGenerating,            \* std::atomic<bool> (line 28)
    kernelArgs,              \* arguments 1..3 held by the global kernel object
    image,                   \* main's frame buffer, WIDTH * HEIGHT * 3 bytes
    pc,                      \* where the control thread (main) is
    quit,                    \* main's quit flag
    events,                  \* number of SDL events delivered so far
    workers,                 \* the detached generation threads, by slot
    presented,               \* the raster last handed to SDL_UpdateTexture
    crashed,                 \* the process died of a fault
    lastRequest,             \* what the latest request of a cycle came to
    item                     \* one work-item of the kernel, run pass by pass

vars == <<colorTable, build, offsetX, offsetY, zoom, needsRedraw, isGenerating,
          kernelArgs, image, pc, quit, events, workers, presented, crashed,
          lastRequest, item>>

\* What main and the workers work on.
hostVars == <<offsetX, offsetY, zoom, needsRedraw, isGenerating, kernelArgs,
              image, pc, quit, events, workers, presented, crashed, lastRequest>>

paletteVars == <<colorTable, build>>

Slots == 1..MaxWorkers

ImageIndex == 0..(WIDTH * HEIGHT * 3 - 1)

View == [offsetX |-> offsetX, offsetY |-> offsetY, zoom |-> zoom]

InFlight == {w \in Slots : workers[w].pc # "none"}

\* The process runs: main has not returned and nothing has faulted.
Alive == ~crashed /\ pc # "done"

\* The globals and main's locals as lines 18-28 and 154 make them.
HostInit ==
    /\ offsetX = InitialView.offsetX
    /\ offsetY = InitialView.offsetY
    /\ zoom = InitialView.zoom
    /\ needsRedraw = FALSE
    /\ isGenerating = FALSE
    /\ kernelArgs = [offsetX |-> Zero, offsetY |-> Zero, zoom |-> Zero]
    /\ image = [i \in ImageIndex |-> 0]
    /\ pc = "start"
    /\ quit = FALSE
    /\ events = 0
    /\ workers = [w \in Slots |->
                    [pc |-> "none", out |-> <<>>, idx |-> 0, err |-> FALSE,
                     req |-> InitialView]]
    /\ presented = <<>>
    /\ crashed = FALSE
    /\ lastRequest = "none"

\* The palette once initColorTable has returned (line 142).
PaletteBuilt ==
    /\ colorTable = initColorTable
    /\ build = MAX_ITER + 1

IdleItem ==
    [pc |-> "idle", a |-> InitialView, idx |-> 0, c |-> [cx |-> Zero, cy |-> Zero],
     st |-> LoopStart, max_iter |-> MAX_ITER, out |-> 0]

\* The state when main reaches line 155.
Init ==
    /\ PaletteBuilt
    /\ HostInit
    /\ item = IdleItem

\* ------------------------------------------- generateMandelbrotAsync
\* std::thread(...).detach(): a new worker in the least free slot.  req
\* records the viewport at this moment (it is not part of the program).
SpawnWorker ==
    \E w \in Slots :
        /\ workers[w].pc = "none"
        /\ \A u \in Slots : workers[u].pc = "none" => w <= u
        /\ workers' = [workers EXCEPT ![w] =
                          [pc |-> "setArg1", out |-> <<>>, idx |-> 0,
                           err |-> FALSE, req |-> View]]

\* A generateMandelbrotAsync without the isGenerating test of line 133.
generateMandelbrotAsyncUnguarded ==
    /\ isGenerating' = TRUE
    /\ SpawnWorker
    /\ lastRequest' = "accepted"

\* A generateMandelbrotAsync whose early return gives the flag up.
generateMandelbrotAsyncResetting ==
    IF isGenerating
    THEN /\ lastRequest' = "dropped"
         /\ isGenerating' = FALSE
         /\ UNCHANGED workers
    ELSE /\ isGenerating' = TRUE
         /\ SpawnWorker
         /\ lastRequest' = "accepted"

\* A generateMandelbrotAsync that waits for the flag instead of returning.
generateMandelbrotAsyncWaiting ==
    /\ ~isGenerating
    /\ isGenerating' = TRUE
    /\ SpawnWorker
    /\ lastRequest' = "accepted"

\* lines 132-139.  lastRequest records the branch taken (it is not part
\* of the program).
generateMandelbrotAsync ==
    IF isGenerating
    THEN /\ lastRequest' = "dropped"
         /\ UNCHANGED <<isGenerating, workers>>
    ELSE /\ isGenerating' = TRUE
         /\ SpawnWorker
         /\ lastRequest' = "accepted"

\* ------------------------------------------------------------- main
\* line 155: the first request.
MainStart ==
    /\ Alive /\ pc = "start"
    /\ generateMandelbrotAsync
    /\ pc' = "poll"
    /\ UNCHANGED <<offsetX, offsetY, zoom, needsRedraw, kernelArgs, image, quit,
                   events, presented, crashed, item, paletteVars>>

\* SDL_PollEvent returns SDL_KEYDOWN of one of the six control keys, the
\* events delivered so far being fewer than limit.
KeyEvent(k, limit) ==
    /\ Alive /\ pc = "poll" /\ events < limit
    /\ LET v == KeyDown(View, k)
       IN  /\ offsetX' = v.offsetX
           /\ offsetY' = v.offsetY
           /\ zoom' = v.zoom
    /\ needsRedraw' = TRUE
    /\ events' = events + 1
    /\ UNCHANGED <<isGenerating, kernelArgs, image, pc, quit, workers,
                   presented, crashed, lastRequest, item, paletteVars>>

PollKey(k) == KeyEvent(k, MaxEvents)

\* SDL_PollEvent returns SDL_QUIT.
PollQuit ==
    /\ Alive /\ pc = "poll" /\ events < MaxEvents
    /\ quit' = TRUE
    /\ events' = events + 1
    /\ UNCHANGED <<offsetX, offsetY, zoom, needsRedraw, isGenerating,
                   kernelArgs, image, pc, workers, presented, crashed,
                   lastRequest, item, paletteVars>>

\* SDL_PollEvent returns any other event (another key, another event type).
PollOther ==
    /\ Alive /\ pc = "poll" /\ events < MaxEvents
    /\ events' = events + 1
    /\ UNCHANGED <<offsetX, offsetY, zoom, needsRedraw, isGenerating,
                   kernelArgs, image, pc, quit, workers, presented, crashed,
                   lastRequest, item, paletteVars>>

\* SDL_PollEvent returns 0: the inner loop ends.
PollEmpty ==
    /\ Alive /\ pc = "poll"
    /\ pc' = "redraw"
    /\ UNCHANGED <<offsetX, offsetY, zoom, needsRedraw, isGenerating,
                   kernelArgs, image, quit, events, workers, presented,
                   crashed, lastRequest, item, paletteVars>>

\* A redraw step that keeps needsRedraw set when its request is dropped.
RedrawKeepingDropped ==
    /\ Alive /\ pc = "redraw"
    /\ IF needsRedraw
       THEN generateMandelbrotAsync /\ needsRedraw' = isGenerating
       ELSE /\ lastRequest' = "none"
            /\ UNCHANGED <<isGenerating, workers, needsRedraw>>
    /\ pc' = "present"
    /\ UNCHANGED <<offsetX, offsetY, zoom, kernelArgs, image, quit, events,
                   presented, crashed, item, paletteVars>>

\* lines 203-206
Redraw ==
    /\ Alive /\ pc = "redraw"
    /\ IF needsRedraw
       THEN generateMandelbrotAsync /\ needsRedraw' = FALSE
       ELSE /\ lastRequest' = "none"
            /\ UNCHANGED <<isGenerating, workers, needsRedraw>>
    /\ pc' = "present"
    /\ UNCHANGED <<offsetX, offsetY, zoom, kernelArgs, image, quit, events,
                   presented, crashed, item, paletteVars>>

\* A presentation step that waits until no generation is running.
PresentWhenIdle ==
    /\ Alive /\ pc = "present" /\ ~isGenerating
    /\ presented' = image
    /\ pc' = IF quit THEN "teardown" ELSE "poll"
    /\ UNCHANGED <<offsetX, offsetY, zoom, needsRedraw, isGenerating,
                   kernelArgs, image, quit, events, workers, crashed,
                   lastRequest, item, paletteVars>>

\* lines 208-211, then the loop condition of line 169
Present ==
    /\ Alive /\ pc = "present"
    /\ presented' = image
    /\ pc' = IF quit THEN "teardown" ELSE "poll"
    /\ UNCHANGED <<offsetX, offsetY, zoom, needsRedraw, isGenerating,
                   kernelArgs, image, quit, events, workers, crashed,
                   lastRequest, item, paletteVars>>

\* A teardown that waits for the worker in flight to end.
TeardownJoining ==
    /\ Alive /\ pc = "teardown" /\ InFlight = {}
    /\ pc' = "done"
    /\ UNCHANGED <<offsetX, offsetY, zoom, needsRedraw, isGenerating,
                   kernelArgs, image, quit, events, workers, presented,
                   crashed, lastRequest, item, paletteVars>>

\* lines 214-219: main returns and the process ends.
Teardown ==
    /\ Alive /\ pc = "teardown"
    /\ pc' = "done"
    /\ UNCHANGED <<offsetX, offsetY, zoom, needsRedraw, isGenerating,
                   kernelArgs, image, quit, events, workers, presented,
                   crashed, lastRequest, item, paletteVars>>

Main ==
    \/ MainStart
    \/ \E k \in Keys : PollKey(k)
    \/ PollQuit
    \/ PollOther
    \/ PollEmpty
    \/ Redraw
    \/ Present
    \/ Teardown

\* ------------------------------------------------ generateMandelbrot
\* The worker thread of slot w.  The kernel object is global, so the
\* arguments it holds are shared program state; each setArg reads one
\* viewport global at the moment it runs.

\* line 105 (buffer) and lines 107-108: kernel.setArg(1, offsetX)
SetArgX(w) ==
    /\ Alive /\ workers[w].pc = "setArg1"
    /\ kernelArgs' = [kernelArgs EXCEPT !.offsetX = offsetX]
    /\ workers' = [workers EXCEPT ![w].pc = "setArg2"]
    /\ UNCHANGED <<offsetX, offsetY, zoom, needsRedraw, isGenerating, image,
                   pc, quit, events, presented, crashed, lastRequest,
                   item, paletteVars>>

\* line 109: kernel.setArg(2, offsetY)
SetArgY(w) ==
    /\ Alive /\ workers[w].pc = "setArg2"
    /\ kernelArgs' = [kernelArgs EXCEPT !.offsetY = offsetY]
    /\ workers' = [workers EXCEPT ![w].pc = "setArg3"]
    /\ UNCHANGED <<offsetX, offsetY, zoom, needsRedraw, isGenerating, image,
                   pc, quit, events, presented, crashed, lastRequest,
                   item, paletteVars>>

\* lines 110-111: kernel.setArg(3, zoom), kernel.setArg(4, MAX_ITER)
SetArgZoom(w) ==
    /\ Alive /\ workers[w].pc = "setArg3"
    /\ kernelArgs' = [kernelArgs EXCEPT !.zoom = zoom]
    /\ workers' = [workers EXCEPT ![w].pc = "dispatch"]
    /\ UNCHANGED <<offsetX, offsetY, zoom, needsRedraw, isGenerating, image,
                   pc, quit, events, presented, crashed, lastRequest,
                   item, paletteVars>>

\* lines 113-115, both calls succeed: the mapped buffer holds what the
\* kernel stored for every work-item.
Dispatch(w) ==
    /\ Alive /\ workers[w].pc = "dispatch"
    /\ workers' = [workers EXCEPT
                      ![w].pc = "copy",
                      ![w].out = OutputBuffer[kernelArgs]]
    /\ UNCHANGED <<offsetX, offsetY, zoom, needsRedraw, isGenerating,
                   kernelArgs, image, pc, quit, events, presented, crashed,
                   lastRequest,
                   item, paletteVars>>

\* What a buffer the kernel never wrote may hold.
GarbageBytes == {0, ByteRange - 1}

\* lines 113-115, enqueueNDRangeKernel returns an error code: the code is
\* discarded, the kernel does not run, and the buffer that is mapped next
\* holds indeterminate bytes.
DispatchFail(w) ==
    /\ Alive /\ workers[w].pc = "dispatch"
    /\ \E g \in GarbageBytes :
          workers' = [workers EXCEPT
                         ![w].pc = "copy",
                         ![w].err = TRUE,
                         ![w].out = [p \in Pixels |-> g]]
    /\ UNCHANGED <<offsetX, offsetY, zoom, needsRedraw, isGenerating,
                   kernelArgs, image, pc, quit, events, presented, crashed,
                   lastRequest,
                   item, paletteVars>>

\* line 115, enqueueMapBuffer fails and returns a null pointer, which
\* line 120 dereferences: the process takes a fault.
MapFail(w) ==
    /\ Alive /\ workers[w].pc = "dispatch"
    /\ crashed' = TRUE
    /\ workers' = [workers EXCEPT ![w].err = TRUE]
    /\ UNCHANGED <<offsetX, offsetY, zoom, needsRedraw, isGenerating,
                   kernelArgs, image, pc, quit, events, presented, lastRequest,
                   item, paletteVars>>

\* An index computed with four bytes to the pixel.
WriteIndexRGBA(idx, k) == idx * 4 + k

\* lines 120-122: the index of byte k of pixel idx = y * WIDTH + x
WriteIndex(idx, k) == idx * 3 + k

\* lines 117-125, one pass of the copy loop: pixel idx
WritePixel(img, idx, rgb) ==
    [img EXCEPT ![WriteIndex(idx, 0)] = rgb[1],
                ![WriteIndex(idx, 1)] = rgb[2],
                ![WriteIndex(idx, 2)] = rgb[3]]

CopyPixel(w) ==
    /\ Alive /\ workers[w].pc = "copy" /\ workers[w].idx < WIDTH * HEIGHT
    /\ image' = WritePixel(image, workers[w].idx,
                           colorTable[workers[w].out[workers[w].idx]])
    /\ workers' = [workers EXCEPT ![w].idx = @ + 1]
    /\ UNCHANGED <<offsetX, offsetY, zoom, needsRedraw, isGenerating,
                   kernelArgs, pc, quit, events, presented, crashed, lastRequest,
                   item, paletteVars>>

\* A worker that clears the flag as soon as the buffer is mapped, whatever
\* it has copied.
FinishEarly(w) ==
    /\ Alive /\ workers[w].pc = "copy"
    /\ isGenerating' = FALSE
    /\ workers' = [workers EXCEPT ![w].pc = "none"]
    /\ UNCHANGED <<offsetX, offsetY, zoom, needsRedraw, kernelArgs, image, pc,
                   quit, events, presented, crashed, lastRequest,
                   item, paletteVars>>

\* A worker that also clears needsRedraw when it ends.
FinishClearingRedraw(w) ==
    /\ Alive /\ workers[w].pc = "copy" /\ workers[w].idx = WIDTH * HEIGHT
    /\ isGenerating' = FALSE
    /\ needsRedraw' = FALSE
    /\ workers' = [workers EXCEPT ![w].pc = "none"]
    /\ UNCHANGED <<offsetX, offsetY, zoom, kernelArgs, image, pc,
                   quit, events, presented, crashed, lastRequest,
                   item, paletteVars>>

\* A worker that ends without clearing the flag.
FinishLeavingFlag(w) ==
    /\ Alive /\ workers[w].pc = "copy" /\ workers[w].idx = WIDTH * HEIGHT
    /\ workers' = [workers EXCEPT ![w].pc = "none"]
    /\ UNCHANGED <<offsetX, offsetY, zoom, needsRedraw, isGenerating,
                   kernelArgs, image, pc, quit, events, presented, crashed,
                   lastRequest, item, paletteVars>>

\* lines 127-128, then line 137: isGenerating = false and the thread ends.
Finish(w) ==
    /\ Alive /\ workers[w].pc = "copy" /\ workers[w].idx = WIDTH * HEIGHT
    /\ isGenerating' = FALSE
    /\ workers' = [workers EXCEPT ![w].pc = "none"]
    /\ UNCHANGED <<offsetX, offsetY, zoom, needsRedraw, kernelArgs, image, pc,
                   quit, events, presented, crashed, lastRequest,
                   item, paletteVars>>

Worker(w) ==
    \/ SetArgX(w)
    \/ SetArgY(w)
    \/ SetArgZoom(w)
    \/ Dispatch(w)
    \/ DispatchFail(w)
    \/ MapFail(w)
    \/ CopyPixel(w)
    \/ Finish(w)

Next ==
    \/ Main
    \/ \E w \in Slots : Worker(w)

Spec == Init /\ [][Next]_vars

\* The control thread is an operating-system thread of its own: it keeps
\* being scheduled whatever the workers do.
FairSpec == Spec /\ WF_vars(Main)

\* The program with one of the control keys, and every worker thread
\* scheduled again and again for as long as it can take a step.
LiveKeys == {"d"}

LiveMain ==
    \/ MainStart
    \/ \E k \in LiveKeys : PollKey(k)
    \/ PollQuit
    \/ PollOther
    \/ PollEmpty
    \/ Redraw
    \/ Present
    \/ Teardown

LiveNext ==
    \/ LiveMain
    \/ \E w \in Slots : Worker(w)

LiveSpec ==
    /\ Init /\ [][LiveNext]_vars
    /\ \A w \in Slots : WF_vars(Worker(w))

\* ------------------------------------------------ one work-item alone
\* The kernel body of lines 66-90 run pass by pass for one work-item idx,
\* on the arguments a and the bound max_iter it was given.
Half == [m |-> 1, e |-> -1]

ItemArgs ==
    { InitialView,
      [offsetX |-> Zero, offsetY |-> Zero, zoom |-> Half],
      [offsetX |-> [m |-> 1, e |-> 1], offsetY |-> Zero, zoom |-> Half],
      [offsetX |-> [m |-> -1, e |-> 1], offsetY |-> Zero, zoom |-> [m |-> 1, e |-> 0]],
      [offsetX |-> [m |-> 1, e |-> -2], offsetY |-> [m |-> 1, e |-> -1], zoom |-> [m |-> 1, e |-> 2]] }

ItemBounds == {1, 2, 3, ByteRange, MAX_ITER}

ItemInit ==
    /\ PaletteBuilt
    /\ HostInit
    /\ item \in { [pc |-> "map", a |-> a, idx |-> idx, c |-> [cx |-> Zero, cy |-> Zero],
                   st |-> LoopStart, max_iter |-> n, out |-> 0] :
                  a \in ItemArgs, idx \in Pixels, n \in ItemBounds }

\* lines 66-77: the work-item's coordinates
ItemMap ==
    /\ item.pc = "map"
    /\ item' = [item EXCEPT !.pc = "loop", !.c = PixelOf(item.idx, item.a)]
    /\ UNCHANGED <<hostVars, paletteVars>>

\* lines 79-88: the loop condition, the escape test and one update
ItemPass ==
    /\ item.pc = "loop" /\ item.st.run
    /\ item' = [item EXCEPT !.st = LoopStep(item.st, item.c, item.max_iter)]
    /\ UNCHANGED <<hostVars, paletteVars>>

\* line 90: the store into the output buffer
ItemStore ==
    /\ item.pc = "loop" /\ ~item.st.run
    /\ item' = [item EXCEPT !.pc = "stored", !.out = StoredByte(item.st.iter)]
    /\ UNCHANGED <<hostVars, paletteVars>>

ItemNext == ItemMap \/ ItemPass \/ ItemStore

KernelSpec == ItemInit /\ [][ItemNext]_vars

\* ------------------------------------------------------ initColorTable
\* The palette build of lines 30-38, one loop pass per step, from the
\* value-initialised vector of line 16.
PaletteInit ==
    /\ colorTable = [iter \in 0..MAX_ITER |-> <<0, 0, 0>>]
    /\ build = 0
    /\ HostInit
    /\ item = IdleItem

BuildPass ==
    /\ build <= MAX_ITER
    /\ colorTable' = [colorTable EXCEPT ![build] = ColorOf(build)]
    /\ build' = build + 1
    /\ UNCHANGED <<hostVars, item>>

PaletteSpec == PaletteInit /\ [][BuildPass]_vars

\* ------------------------------------------------------ key events alone
\* Main from line 155 on while only key events arrive and the worker is
\* not scheduled: up to MaxKeys events of any of the six keys,
PanKey(k) == KeyEvent(k, MaxKeys)

ViewNext == MainStart \/ \E k \in Keys : PanKey(k)

ViewSpec == Init /\ [][ViewNext]_vars

\* and up to MaxZoomKeys events of the two zoom keys.
ZoomKey(k) == KeyEvent(k, MaxZoomKeys)

ZoomNext == MainStart \/ \E k \in {"e", "q"} : ZoomKey(k)

ZoomSpec == Init /\ [][ZoomNext]_vars

\* ============================================================ claims
\* The frame the code makes of kernel arguments a: each pixel's stored
\* byte through the palette.
StoredFrame(a) ==
    [i \in ImageIndex |-> colorTable[mandelbrot(i \div 3, a)][(i % 3) + 1]]

\* The frame of kernel arguments a by loop counter: each pixel's loop
\* counter at termination through the palette.
CounterFrame(a) ==
    [i \in ImageIndex |-> colorTable[mandelbrotIter(i \div 3, a)][(i % 3) + 1]]

\* C1: in every reachable state at most one worker started by
\* generateMandelbrotAsync is in flight, and one is in flight only while
\* isGenerating is set.
C1_AtMostOneInFlight ==
    /\ Cardinality(InFlight) <= 1
    /\ InFlight # {} => isGenerating

\* A request was made while a worker was in flight, and one worker is.
C1_Witness == lastRequest = "dropped" /\ Cardinality(InFlight) = 1

\* C2: the step of main that calls generateMandelbrotAsync while
\* isGenerating is set starts no worker, leaves the flag, the frame buffer
\* and the kernel arguments as they are, and keeps nothing of the request.
C2_DroppedRequestIsNoOp ==
    [][(pc = "redraw" /\ pc' = "present" /\ needsRedraw /\ isGenerating)
          => UNCHANGED <<workers, isGenerating, image, kernelArgs, offsetX,
                         offsetY, zoom, presented, colorTable, quit, events,
                         crashed>>]_vars

\* A call made with the flag set has returned.
C2_Witness ==
    pc = "present" /\ lastRequest = "dropped" /\ isGenerating /\ events > 0

\* C3: the arguments a generation dispatches with are the viewport as it
\* was when its request was accepted.
C3_SnapshotAtAcceptance ==
    \A w \in Slots : workers[w].pc = "copy" => kernelArgs = workers[w].req

\* C4: a generation whose dispatch failed never gets to the end of its
\* copy loop and its flag reset with the process still running.
C4_DispatchFailureIsFatal ==
    \A w \in Slots :
        ~(/\ workers[w].err
          /\ workers[w].pc = "none"
          /\ workers[w].idx = WIDTH * HEIGHT
          /\ ~isGenerating
          /\ Alive)

\* C5: when a generation whose dispatch succeeded has copied every pixel,
\* the frame buffer holds, for each pixel, the palette entry of that
\* pixel's loop counter at termination.
C5_FrameIsPaletteOfCount ==
    \A w \in Slots :
        (workers[w].pc = "copy" /\ workers[w].idx = WIDTH * HEIGHT /\ ~workers[w].err)
            => image = CounterFrame(kernelArgs)

\* C6: the work-item whose coordinate is (0.0, 0.0), run with the bound
\* MAX_ITER, never escapes and stores MAX_ITER.
C6_OriginReturnsMaxIter ==
    (item.pc = "stored" /\ item.c = [cx |-> Zero, cy |-> Zero] /\ item.max_iter = MAX_ITER)
        => (item.st.iter = MAX_ITER /\ item.out = MAX_ITER)

\* The work-item's loop has ended on the coordinate (2.0, 0.0).
EndedAtTwo ==
    /\ item.pc \in {"loop", "stored"}
    /\ ~item.st.run
    /\ item.c = [cx |-> [m |-> 1, e |-> 1], cy |-> Zero]

\* C7 as the specification words it: on (2.0, 0.0) the loop stops with
\* the counter at most 1, whatever the bound.
C7_EscapesWithinOne == EndedAtTwo => item.st.iter <= 1

\* C7: on (2.0, 0.0) the loop stops with the counter at 2, or at the
\* bound if the bound is 1: the squared modulus after one update is 4.0
\* exactly, which the test of line 82 does not count as an escape.
C7_EscapesAtTwo == EndedAtTwo => item.st.iter = Min(2, item.max_iter)

\* The kernel has stored its result for (2.0, 0.0) under the bound the
\* program passes.
C7_Witness ==
    EndedAtTwo /\ item.pc = "stored" /\ item.max_iter = MAX_ITER /\ item.st.iter = 2

\* C8: main never waits for a generation: at the redraw step and at the
\* presentation step of every cycle its next step can be taken, whatever
\* the flag and the workers are.
C8_LoopNeverBlocks ==
    Alive => /\ pc = "redraw" => ENABLED Redraw
             /\ pc = "present" => ENABLED Present

\* A cycle whose request was dropped has presented the frame buffer and
\* gone on to the next cycle, the worker still in flight.
C8_Witness ==
    pc = "poll" /\ lastRequest = "dropped" /\ InFlight # {} /\ presented = image

\* C9: once input has ceased and everything has come to rest (no worker
\* in flight, no redraw pending, no failed dispatch), the frame buffer
\* holds the frame of the current viewport.
C9_StaleFrameIsReplaced ==
    (/\ Alive /\ pc = "poll"
     /\ InFlight = {}
     /\ ~needsRedraw
     /\ \A w \in Slots : ~workers[w].err)
        => image = StoredFrame(View)

\* C10: once initColorTable has returned, the palette entries of
\* iteration counts 0 and MAX_ITER are both (0, 0, 0).
C10_PaletteEndsAreBlack ==
    build > MAX_ITER =>
        /\ colorTable[0] = <<0, 0, 0>>
        /\ colorTable[MAX_ITER] = <<0, 0, 0>>

\* The build has run to its end and written colours in between.
C10_Witness ==
    /\ build > MAX_ITER
    /\ colorTable[MAX_ITER \div 2] # <<0, 0, 0>>
    /\ colorTable[MAX_ITER - 1] # <<0, 0, 0>>

\* C11: from every viewport the program reaches, key d then key a gives
\* back the same offsetX, offsetY and zoom, and so does key s then key w.
C11_PanInverse ==
    /\ KeyDown(KeyDown(View, "d"), "a") = View
    /\ KeyDown(KeyDown(View, "s"), "w") = View

\* C12: zoom is greater than 0 in every state that zoom-in and zoom-out
\* events lead to from zoom = 0.5.
C12_ZoomPositive == zoom.m > 0

\* Zooming out has reached the values below the normal range and come to
\* rest there: one more zoom-out leaves zoom as it is.
C12_Witness ==
    /\ events > 0
    /\ Top(zoom) - 1 < EMin
    /\ KeyDown(View, "q").zoom = zoom

\* The frame buffer a worker has filled from its mapped buffer.
CopiedFrame(w) ==
    [i \in ImageIndex |-> colorTable[workers[w].out[i \div 3]][(i % 3) + 1]]

C13_Step ==
    /\ \A w \in Slots :
          /\ (workers[w].pc = "none" /\ workers'[w].pc # "none")
                => (~isGenerating /\ isGenerating')
          /\ (workers'[w].pc # "none") => isGenerating'
          /\ (workers[w].pc = "copy" /\ workers'[w].idx # workers[w].idx)
                => (isGenerating /\ isGenerating')
    /\ (image' # image) => (isGenerating /\ isGenerating')
    /\ (isGenerating /\ ~isGenerating')
          => \E w \in Slots :
                /\ workers[w].pc = "copy" /\ workers'[w].pc = "none"
                /\ workers[w].idx = WIDTH * HEIGHT
                /\ image = CopiedFrame(w)

\* C13: in every step, a worker starts only in the step that sets
\* isGenerating, the flag is set while a worker is in flight and across
\* every write of the frame buffer, and the flag is cleared only by a
\* worker that has written all WIDTH*HEIGHT pixels of the frame buffer.
C13_GenerationOrdered == [][C13_Step]_vars

\* A generation has run to its end: the flag is clear again and the frame
\* buffer holds all the pixels of the worker that finished.
C13_Witness ==
    /\ ~isGenerating
    /\ \E w \in Slots :
          /\ workers[w].pc = "none" /\ workers[w].idx = WIDTH * HEIGHT
          /\ ~workers[w].err
          /\ image = CopiedFrame(w)

\* Worker w has written some but not all pixels of its frame.
MidCopy(w) ==
    /\ workers[w].pc = "copy"
    /\ 0 < workers[w].idx /\ workers[w].idx < WIDTH * HEIGHT

\* C14: whenever main stands at its presentation step while a worker has
\* written only some of its pixels, the presentation step can be taken:
\* nothing makes main wait for the worker.
C14_PresentWhileWriting ==
    (Alive /\ pc = "present" /\ \E w \in Slots : MidCopy(w)) => ENABLED Present

\* A torn raster has been presented: during the first generation, the
\* pixels below the worker's copy index are those of the new frame and not
\* all zero, the pixels from the copy index on are still the zeros of the
\* initial buffer, where the new frame has another value.
C14_Witness ==
    /\ events = 0 /\ presented = image
    /\ \E w \in Slots :
          /\ MidCopy(w)
          /\ \A i \in ImageIndex :
                IF i < 3 * workers[w].idx
                THEN presented[i] = CopiedFrame(w)[i]
                ELSE presented[i] = 0
          /\ \E i \in ImageIndex : i < 3 * workers[w].idx /\ presented[i] # 0
          /\ \E i \in ImageIndex :
                i >= 3 * workers[w].idx /\ CopiedFrame(w)[i] # 0

C15_Step ==
    /\ (\E k \in Keys : PollKey(k)) => needsRedraw'
    /\ (~needsRedraw /\ needsRedraw') => \E k \in Keys : PollKey(k)
    /\ (needsRedraw /\ ~needsRedraw') => pc = "redraw"
    /\ (pc = "redraw" /\ pc' = "present")
          => IF needsRedraw
             THEN /\ ~needsRedraw'
                  /\ lastRequest' \in {"accepted", "dropped"}
                  /\ Cardinality(InFlight') <= Cardinality(InFlight) + 1
             ELSE lastRequest' = "none" /\ workers' = workers
    /\ pc' = "present" => ~needsRedraw'

\* C15: every control-key event sets needsRedraw and no other step does;
\* the redraw step of a cycle that finds needsRedraw set calls
\* generateMandelbrotAsync once and clears needsRedraw whether the request
\* was accepted or dropped, a cycle that finds it clear makes no request;
\* needsRedraw is false at every presentation step.
C15_RedrawDiscipline == [][C15_Step]_vars

\* A cycle whose request was dropped has cleared needsRedraw all the same,
\* and the viewport the request was for is not the one being generated.
C15_Witness ==
    /\ pc = "present" /\ lastRequest = "dropped" /\ ~needsRedraw
    /\ \E w \in InFlight : workers[w].req # View

C16_Step ==
    /\ (\E w \in Slots : Worker(w))
          => /\ View' = View
             /\ needsRedraw' = needsRedraw
             /\ quit' = quit
             /\ pc' = pc
    /\ colorTable' = colorTable /\ colorTable' = initColorTable
    /\ (View' # View) => \E k \in Keys : PollKey(k)

\* C16: a step of a worker leaves offsetX, offsetY, zoom, needsRedraw and
\* main's own state as they are; colorTable is the table initColorTable
\* built, in every state; offsetX, offsetY and zoom change only in a
\* key-event step of main.
C16_WorkerFrame == [][C16_Step]_vars

\* A worker has run from start to end while a key event had changed the
\* viewport and set needsRedraw: both are as main left them.
C16_Witness ==
    /\ ~isGenerating /\ needsRedraw /\ View # InitialView
    /\ \E w \in Slots :
          /\ workers[w].pc = "none" /\ workers[w].idx = WIDTH * HEIGHT
          /\ workers[w].req = InitialView

\* C17: whenever main has left its loop on a quit event and stands before
\* the teardown while a worker is in flight, the teardown can be taken:
\* main does not wait for the worker.
C17_TeardownDoesNotWait ==
    (Alive /\ pc = "teardown" /\ quit /\ InFlight # {}) => ENABLED Teardown

\* main has torn down and returned while the flag is set and the worker
\* has written only part of the frame buffer.
C17_Witness ==
    /\ pc = "done" /\ quit /\ isGenerating
    /\ \E w \in Slots : MidCopy(w)

\* C19: while a worker copies, every byte of its mapped buffer is an index
\* of colorTable, within 0..MAX_ITER, and every index idx*3 + k the loop
\* writes at is an index of the frame buffer, within 0..WIDTH*HEIGHT*3-1.
C19_IndexesInBounds ==
    \A w \in Slots :
        workers[w].pc = "copy" =>
            \A p \in Pixels :
                /\ workers[w].out[p] \in DOMAIN colorTable
                /\ workers[w].out[p] \in 0..MAX_ITER
                /\ \A k \in 0..2 :
                      /\ WriteIndex(p, k) \in DOMAIN image
                      /\ WriteIndex(p, k) \in 0..(WIDTH * HEIGHT * 3 - 1)

\* A worker has copied a whole buffer that holds the largest byte.
C19_Witness ==
    \E w \in Slots :
        /\ workers[w].pc = "copy" /\ workers[w].idx = WIDTH * HEIGHT
        /\ \E p \in Pixels : workers[w].out[p] = ByteRange - 1
        /\ image = CopiedFrame(w)

\* C18 as stated: whenever isGenerating is set and no compute call brings
\* the process down, isGenerating is cleared later on.
C18_FlagEventuallyCleared == isGenerating ~> (~isGenerating \/ crashed)

\* C18: whenever isGenerating is set, later on it is cleared, or a compute
\* call has brought the process down, or main has returned and the
\* process has ended with the worker.
C18_FlagClearedOrProcessEnded ==
    isGenerating ~> (~isGenerating \/ crashed \/ pc = "done")

\* A second generation, requested by the redraw step for a viewport a key
\* event produced, was accepted and has finished.
C18_Witness ==
    /\ ~isGenerating /\ InFlight = {} /\ lastRequest = "accepted"
    /\ \E w \in Slots :
          /\ workers[w].idx = WIDTH * HEIGHT
          /\ workers[w].req # InitialView

====
